---- MODULE Spec2Model ----
(***************************************************************************)
(* Model of omero_scripts/omero_basics.py: the OMEROConnectionManager      *)
(* class (credential resolution, connect, disconnect, hql_query, __del__)  *)
(* and the utility functions write_csv and well_from_row_col.              *)
(*                                                                         *)
(* Python values are tagged records, so that None, strings, integers and   *)
(* objects can be compared with one another: None is [t |-> "None"], a     *)
(* string is [t |-> "str", v |-> s], an integer is [t |-> "int", v |-> i]. *)
(***************************************************************************)
EXTENDS Integers, Sequences, FiniteSets, TLC

VARIABLES
    \* ---- environment of the constructor
    config_file,    \* the config_file argument of __init__: None or a path
    session_props,  \* what SessionsStore().get_current() returns: a 4-tuple
    fs,             \* the file system entry at the resolved config path
    serverRows,     \* what the query service's projection() returns
    \* ---- the manager object
    phase,          \* "new", "constructed", "aborted" (__init__ left by an
                    \* exit or an exception) or "deleted" (__del__ has run)
    initOutcome,    \* how __init__ ended
    accessed,       \* file-system calls __init__ made on the config path
    conn, SUUID, HOST, PORT, USERNAME, PASSWORD,
    handles,        \* every BlitzGateway this manager created, by id
    lastOp,         \* the last method call and how it ended
    \* ---- write_csv
    csv_header, csv_rows, csv_file, csv_result,
    \* ---- well_from_row_col
    row, column, well

envVars  == <<config_file, session_props, fs, serverRows>>
credVars == <<SUUID, HOST, PORT, USERNAME, PASSWORD>>
mgrVars  == <<phase, initOutcome, accessed, conn, SUUID, HOST, PORT, USERNAME,
              PASSWORD, handles, lastOp>>
csvVars  == <<csv_header, csv_rows, csv_file, csv_result>>
wellVars == <<row, column, well>>
vars     == <<envVars, mgrVars, csvVars, wellVars>>

-----------------------------------------------------------------------------
(* Python values *)

None == [t |-> "None"]

PyStr(s) == [t |-> "str", v |-> s]

PyInt(i) == [t |-> "int", v |-> i]

PyList(xs) == [t |-> "list", v |-> xs]

\* Sequences over S of length at most n.
SeqUpTo(S, n) == UNION {[1..k -> S] : k \in 0..n}

-----------------------------------------------------------------------------
(* Bounds *)

\* The manager creates at most this many connection handles in one run.
MaxHandles == 2

\* Rows of a result set or of a CSV table.
MaxRows == 2

\* Cells of one row, fields of one header.
MaxCols == 2

\* Largest zero-based well row and well column tried.
MaxWellRow == 25

MaxWellColumn == 11

-----------------------------------------------------------------------------
(* Environment of the constructor *)

\* '~/.omero/config', the path used when no config_file is given.
DefaultConfigFile == "~/.omero/config"

ExplicitConfigFile == "~/project/omero.cfg"

\* os.path.expanduser on the paths of the model.
expanduser(path) ==
    CASE path = "~/.omero/config"     -> "/home/user/.omero/config"
      [] path = "~/project/omero.cfg" -> "/home/user/project/omero.cfg"
      [] OTHER                        -> path

\* The tuples (host, name, uuid, port) the session store may hand back: no
\* session at all, a current session, a remembered host and user whose
\* session is gone, and a session without a user name.
SessionTuples ==
    { <<None, None, None, None>>,
      <<PyStr("sess.host"), PyStr("sessUser"), PyStr("uuid-1"), PyInt(4064)>>,
      <<PyStr("sess.host"), PyStr("sessUser"), None, PyInt(4064)>>,
      <<PyStr("sess.host"), None, PyStr("uuid-1"), None>> }

\* Contents of a config file, as RawConfigParser sees them: whether the text
\* parses at all, whether it has the [OMEROCredentials] section, and the raw
\* text of each option that is present.
ValidConfig ==
    [parsable |-> TRUE, section |-> TRUE,
     options |-> [host |-> "cfg.host", port |-> "4064",
                  username |-> "cfgUser", password |-> "secret"]]

NoOptions == [o \in {} |-> ""]

GarbageConfig == [parsable |-> FALSE, section |-> FALSE, options |-> NoOptions]

NoSectionConfig == [parsable |-> TRUE, section |-> FALSE, options |-> NoOptions]

NoPortConfig ==
    [parsable |-> TRUE, section |-> TRUE,
     options |-> [host |-> "cfg.host", username |-> "cfgUser",
                  password |-> "secret"]]

BadPortConfig ==
    [parsable |-> TRUE, section |-> TRUE,
     options |-> [host |-> "cfg.host", port |-> "http",
                  username |-> "cfgUser", password |-> "secret"]]

ConfigContents ==
    {ValidConfig, GarbageConfig, NoSectionConfig, NoPortConfig, BadPortConfig}

\* st_mode permission bits tried: 0600, 0400, 0640, 0604, 0644.
FileModes == {384, 256, 416, 388, 420}

\* What may sit at the resolved config path: nothing, a directory, or a
\* regular file with some mode and contents.
FsEntries ==
    { [exists |-> FALSE, isfile |-> FALSE, mode |-> 0, contents |-> GarbageConfig],
      [exists |-> TRUE, isfile |-> FALSE, mode |-> 493, contents |-> GarbageConfig] }
    \cup [exists : {TRUE}, isfile : {TRUE}, mode : FileModes,
          contents : ConfigContents]

-----------------------------------------------------------------------------
(* __init__: credential resolution *)

\* The mask 0077 of line 51 (an octal literal): the group and other bits.
GroupOtherMask == 63

RECURSIVE BitAnd(_, _)
BitAnd(a, b) ==
    IF a = 0 \/ b = 0 THEN 0
    ELSE (IF a % 2 = 1 /\ b % 2 = 1 THEN 1 ELSE 0)
         + 2 * BitAnd(a \div 2, b \div 2)

\* What the session store contributes: queried only without a config_file.
SessionLookup_always == session_props

SessionLookup ==
    IF config_file = None THEN session_props ELSE <<None, None, None, None>>

\* Line 35: the config file is used when a path was given or no session id
\* came back from the store.
UseConfigFile_always(cf, suuid) == TRUE

UseConfigFile(cf, suuid) == cf # None \/ suuid = None

\* Lines 38-40: the path that is examined.
ResolvedPath ==
    expanduser(IF config_file = None THEN DefaultConfigFile ELSE config_file.v)

\* Lines 43-44: exists() and isfile(); isfile() is only called if exists().
FileMissing(entry) == ~(entry.exists /\ entry.isfile)

\* Line 51: any group or other permission bit set.
Insecure(entry) == BitAnd(entry.mode, GroupOtherMask) # 0

\* int() on the option texts of the model; anything else is a ValueError.
IsIntText(s) == s \in {"4064"}

IntOfText(s) == CASE s = "4064" -> 4064

\* config.get(section, option) of RawConfigParser.
ConfigGet(contents, option) ==
    IF ~contents.section THEN [ok |-> FALSE, error |-> "NoSectionError", v |-> None]
    ELSE IF option \notin DOMAIN contents.options
         THEN [ok |-> FALSE, error |-> "NoOptionError", v |-> None]
    ELSE [ok |-> TRUE, error |-> "", v |-> PyStr(contents.options[option])]

\* config.getint(section, option): int() of config.get().
ConfigGetInt(contents, option) ==
    LET g == ConfigGet(contents, option)
    IN  IF ~g.ok THEN g
        ELSE IF ~IsIntText(g.v.v)
             THEN [ok |-> FALSE, error |-> "ValueError", v |-> None]
        ELSE [ok |-> TRUE, error |-> "", v |-> PyInt(IntOfText(g.v.v))]

\* Lines 59-64: the fields after reading the file, starting from the fields
\* `before'; an exception leaves the assignments made so far in place.
ReadCredentials(contents, before) ==
    LET host == ConfigGet(contents, "host")
        port == ConfigGetInt(contents, "port")
        user == ConfigGet(contents, "username")
        pass == ConfigGet(contents, "password")
    IN  IF ~contents.parsable
        THEN [before EXCEPT !.raised = "MissingSectionHeaderError"]
        ELSE IF ~host.ok THEN [before EXCEPT !.raised = host.error]
        ELSE IF ~port.ok
             THEN [before EXCEPT !.HOST = host.v, !.raised = port.error]
        ELSE IF ~user.ok
             THEN [before EXCEPT !.HOST = host.v, !.PORT = port.v,
                                 !.raised = user.error]
        ELSE IF ~pass.ok
             THEN [before EXCEPT !.HOST = host.v, !.PORT = port.v,
                                 !.USERNAME = user.v, !.raised = pass.error]
        ELSE [before EXCEPT !.HOST = host.v, !.PORT = port.v,
                            !.USERNAME = user.v, !.PASSWORD = pass.v]

Returned(op, value) ==
    [op |-> op, result |-> "return", status |-> 0, value |-> value]

Exited(op, code) ==
    [op |-> op, result |-> "exit", status |-> code, value |-> None]

Raised(op, error) ==
    [op |-> op, result |-> error, status |-> 0, value |-> None]

\* Lines 15-64.
Construct ==
    /\ phase = "new"
    /\ conn' = None
    /\ LET sess   == SessionLookup
           path   == ResolvedPath
           \* lines 20-31: the fields before the config file is considered
           before == [HOST |-> sess[1], USERNAME |-> sess[2], SUUID |-> sess[3],
                      PORT |-> sess[4], PASSWORD |-> None, raised |-> ""]
           read   == ReadCredentials(fs.contents, before)
           stop(outcome, fields, calls) ==
               /\ initOutcome' = outcome
               /\ lastOp' = outcome
               /\ phase' = IF outcome.result = "return" THEN "constructed"
                           ELSE "aborted"
               /\ HOST' = fields.HOST
               /\ USERNAME' = fields.USERNAME
               /\ SUUID' = fields.SUUID
               /\ PORT' = fields.PORT
               /\ PASSWORD' = fields.PASSWORD
               /\ accessed' = {[call |-> c, path |-> path] : c \in calls}
       IN  IF ~UseConfigFile(config_file, sess[3])
           THEN stop(Returned("__init__", None), before, {})
           ELSE IF FileMissing(fs)
                THEN stop(Exited("__init__", 1), before,
                          IF fs.exists THEN {"exists", "isfile"} ELSE {"exists"})
           ELSE IF Insecure(fs)
                THEN stop(Exited("__init__", 1), before,
                          {"exists", "isfile", "stat"})
           ELSE IF read.raised # ""
                THEN stop(Raised("__init__", read.raised), read,
                          {"exists", "isfile", "stat", "read"})
           ELSE stop(Returned("__init__", None), read,
                     {"exists", "isfile", "stat", "read"})
    /\ UNCHANGED <<envVars, handles, csvVars, wellVars>>

-----------------------------------------------------------------------------
(* connect, disconnect, hql_query, __del__ *)

\* The reference to the i-th BlitzGateway this manager created.
Gateway(i) == [t |-> "BlitzGateway", id |-> i]

\* Lines 76-83: a BlitzGateway built from the fields, after its connect(sUuid)
\* call has reported `ok'.
NewHandle(ok) ==
    [username |-> USERNAME, passwd |-> PASSWORD, host |-> HOST, port |-> PORT,
     sUuid |-> SUUID, connected |-> ok, closes |-> 0, softclose |-> FALSE,
     omeroGroup |-> None]

\* Line 70: a handle is already held.
HoldsHandle_never(c) == FALSE

HoldsHandle(c) == c # None

\* Lines 66-90: the manager after connect(), whose underlying connect call
\* reports `ok'; `created' tells whether a BlitzGateway was constructed.
connect(ok) ==
    IF HoldsHandle(conn)
    THEN [conn |-> conn, handles |-> handles, created |-> FALSE,
          outcome |-> Returned("connect", conn)]
    ELSE LET new == Gateway(Len(handles) + 1)
         IN  [conn |-> new, handles |-> Append(handles, NewHandle(ok)),
              created |-> TRUE,
              outcome |-> IF ok THEN Returned("connect", new)
                          ELSE Exited("connect", 1)]

Connect ==
    /\ phase = "constructed"
    /\ \E ok \in BOOLEAN :
         LET c == connect(ok)
         IN  /\ c.created => Len(handles) < MaxHandles
             /\ conn' = c.conn
             /\ handles' = c.handles
             /\ lastOp' = c.outcome
    /\ UNCHANGED <<envVars, phase, initOutcome, accessed, credVars, csvVars,
                   wellVars>>

\* Lines 94-96: `if self.conn' is true of every BlitzGateway object.
disconnect_keepsReference ==
    IF conn # None
    THEN /\ handles' = [handles EXCEPT ![conn.id].closes = @ + 1,
                                       ![conn.id].softclose = TRUE]
         /\ conn' = conn
    ELSE UNCHANGED <<conn, handles>>

disconnect ==
    IF conn # None
    THEN /\ handles' = [handles EXCEPT ![conn.id].closes = @ + 1,
                                       ![conn.id].softclose = TRUE]
         /\ conn' = None
    ELSE UNCHANGED <<conn, handles>>

Disconnect ==
    /\ phase = "constructed"
    /\ disconnect
    /\ lastOp' = Returned("disconnect", None)
    /\ UNCHANGED <<envVars, phase, initOutcome, accessed, credVars, csvVars,
                   wellVars>>

\* Lines 124-127: one cell of a projection: None, or an rtype wrapper.
UnwrapCell_keepsWrapper(cell) == cell

UnwrapCell(cell) == IF cell = None THEN None ELSE cell.val

\* Lines 122-127: the inner loop, appending cell by cell.
RECURSIVE UnwrapRow(_, _)
UnwrapRow(cells, unwrapped_row) ==
    IF cells = <<>> THEN unwrapped_row
    ELSE UnwrapRow(Tail(cells), Append(unwrapped_row, UnwrapCell(Head(cells))))

\* Lines 120-128: the outer loop, appending row by row.
RECURSIVE UnwrapRows(_, _)
UnwrapRows(rows, unwrapped_rows) ==
    IF rows = <<>> THEN unwrapped_rows
    ELSE UnwrapRows(Tail(rows),
                    Append(unwrapped_rows, UnwrapRow(Head(rows), <<>>)))

\* Lines 98-130. A query on a BlitzGateway that never connected raises.
HqlQuery ==
    /\ phase = "constructed"
    /\ \E ok \in BOOLEAN :
         LET c == IF conn = None THEN connect(ok)
                  ELSE [conn |-> conn, handles |-> handles, created |-> FALSE,
                        outcome |-> Returned("connect", conn)]
             h == c.conn.id
             queried == [c.handles EXCEPT ![h].omeroGroup = PyInt(-1)]
         IN  /\ c.created => Len(handles) < MaxHandles
             /\ conn' = c.conn
             /\ IF c.outcome.result = "exit"
                THEN /\ handles' = c.handles
                     /\ lastOp' = Exited("hql_query", c.outcome.status)
                ELSE /\ handles' = queried
                     /\ lastOp' =
                          IF queried[h].connected
                          THEN Returned("hql_query",
                                        PyList(UnwrapRows(serverRows, <<>>)))
                          ELSE Raised("hql_query", "Exception")
    /\ UNCHANGED <<envVars, phase, initOutcome, accessed, credVars, csvVars,
                   wellVars>>

\* Lines 132-133, run when the object is reclaimed, also after an __init__
\* that was left by an exit or an exception.
Del_nothing ==
    /\ phase \in {"constructed", "aborted"}
    /\ phase' = "deleted"
    /\ lastOp' = Returned("__del__", None)
    /\ UNCHANGED <<conn, handles>>
    /\ UNCHANGED <<envVars, initOutcome, accessed, credVars, csvVars, wellVars>>

Del ==
    /\ phase \in {"constructed", "aborted"}
    /\ disconnect
    /\ phase' = "deleted"
    /\ lastOp' = Returned("__del__", None)
    /\ UNCHANGED <<envVars, initOutcome, accessed, credVars, csvVars, wellVars>>

-----------------------------------------------------------------------------
(* write_csv *)

\* '%i' and str() of a non-negative integer: its decimal digits.
Digits == <<"0", "1", "2", "3", "4", "5", "6", "7", "8", "9">>

RECURSIVE FormatInt(_)
FormatInt(n) ==
    IF n < 10 THEN Digits[n + 1]
    ELSE FormatInt(n \div 10) \o Digits[(n % 10) + 1]

\* The text the csv writer emits for one field.
FieldText(field) == IF field.t = "int" THEN FormatInt(field.v) ELSE field.v

\* With QUOTE_NONE and no escapechar, a field holding the delimiter cannot be
\* written: the writer raises csv.Error.
NeedsEscape(field) == field.t = "str" /\ field.v \in {"c,d"}

RowWritable(fields) == \A i \in 1..Len(fields) : ~NeedsEscape(fields[i])

\* One record: the fields joined by ',' and ended by '\r\n'.
RECURSIVE JoinFields(_)
JoinFields(fields) ==
    IF fields = <<>> THEN ""
    ELSE IF Len(fields) = 1 THEN FieldText(fields[1])
    ELSE FieldText(fields[1]) \o "," \o JoinFields(Tail(fields))

CsvLine(fields) == JoinFields(fields) \o "\r\n"

\* Line 141: the header and the first row differ in length.
HeaderMismatch_never(rows, header) == FALSE

HeaderMismatch(rows, header) ==
    header # None /\ Len(rows) > 0 /\ Len(rows[1]) # Len(header.v)

\* Lines 147-150: the records handed to the writer, the header first.
Records(rows, header) == (IF header # None THEN <<header.v>> ELSE <<>>) \o rows

\* The lines that reach the file: writing stops at the first record the
\* writer rejects, and the `with' block closes the file.
RECURSIVE WrittenLines(_)
WrittenLines(records) ==
    IF records = <<>> \/ ~RowWritable(Head(records)) THEN <<>>
    ELSE <<CsvLine(Head(records))>> \o WrittenLines(Tail(records))

NoFile == [exists |-> FALSE, lines |-> <<>>, opens |-> 0]

OldFile == [exists |-> TRUE, lines |-> <<"previous\r\n">>, opens |-> 0]

NotCalled == [op |-> "", result |-> "", status |-> 0, value |-> None]

\* Lines 136-150; open(filename, 'wb') creates or truncates the file.
WriteCsv ==
    /\ csv_result = NotCalled
    /\ IF HeaderMismatch(csv_rows, csv_header)
       THEN /\ csv_result' = Raised("write_csv", "ValueError")
            /\ UNCHANGED csv_file
       ELSE LET records == Records(csv_rows, csv_header)
            IN  /\ csv_file' = [exists |-> TRUE, lines |-> WrittenLines(records),
                                opens |-> csv_file.opens + 1]
                /\ csv_result' =
                     IF \A i \in 1..Len(records) : RowWritable(records[i])
                     THEN Returned("write_csv", None)
                     ELSE Raised("write_csv", "csv.Error")
    /\ UNCHANGED <<envVars, mgrVars, csv_header, csv_rows, wellVars>>

-----------------------------------------------------------------------------
(* well_from_row_col *)

\* The 65 of line 160, the ASCII code of 'A'.
OrdA == 65

\* chr() on the codes 65..91.
AsciiFrom65 ==
    <<"A", "B", "C", "D", "E", "F", "G", "H", "I", "J", "K", "L", "M",
      "N", "O", "P", "Q", "R", "S", "T", "U", "V", "W", "X", "Y", "Z",
      "[">>

chr(code) == AsciiFrom65[code - 64]

\* Line 160: '%s%i' % (chr(65 + int(row)), column + 1), on integer arguments.
well_from_row_col_zeroBasedColumn(r, c) == chr(OrdA + r) \o FormatInt(c)

well_from_row_col(r, c) == chr(OrdA + r) \o FormatInt(c + 1)

WellFromRowCol ==
    /\ well = ""
    /\ well' = well_from_row_col(row, column)
    /\ UNCHANGED <<envVars, mgrVars, csvVars, row, column>>

-----------------------------------------------------------------------------
(* Specifications *)

\* The example result set of the documentation.
Wrap(v) == [t |-> "rtype", val |-> v]

ExampleRows ==
    << <<Wrap(PyInt(1)), None>>, <<Wrap(PyStr("x")), Wrap(PyInt(2))>> >>

Cells == {None, Wrap(PyInt(1)), Wrap(PyStr("x"))}

ResultSets == SeqUpTo(SeqUpTo(Cells, MaxCols), MaxRows)

ManagerNew ==
    /\ phase = "new"
    /\ initOutcome = NotCalled
    /\ lastOp = NotCalled
    /\ accessed = {}
    /\ conn = None
    /\ SUUID = None /\ HOST = None /\ PORT = None
    /\ USERNAME = None /\ PASSWORD = None
    /\ handles = <<>>

CsvIdle ==
    /\ csv_header = None
    /\ csv_rows = <<>>
    /\ csv_file = NoFile
    /\ csv_result = NotCalled

WellIdle == row = 0 /\ column = 0 /\ well = ""

\* The manager's life: any constructor environment, then any calls.
Init ==
    /\ config_file \in {None, PyStr(ExplicitConfigFile)}
    /\ session_props \in SessionTuples
    /\ fs \in FsEntries
    /\ serverRows = ExampleRows
    /\ ManagerNew /\ CsvIdle /\ WellIdle

Next == Construct \/ Connect \/ Disconnect \/ HqlQuery \/ Del

Spec == Init /\ [][Next]_vars

\* hql_query on every bounded result set, from a manager built on a session.
InitQuery ==
    /\ config_file = None
    /\ session_props =
         <<PyStr("sess.host"), PyStr("sessUser"), PyStr("uuid-1"), PyInt(4064)>>
    /\ fs \in {f \in FsEntries : ~f.exists}
    /\ serverRows \in ResultSets \cup {ExampleRows}
    /\ ManagerNew /\ CsvIdle /\ WellIdle

NextQuery == Construct \/ HqlQuery

SpecQuery == InitQuery /\ [][NextQuery]_vars

ManagerIdle ==
    /\ config_file = None
    /\ session_props = <<None, None, None, None>>
    /\ fs \in {f \in FsEntries : ~f.exists}
    /\ serverRows = <<>>
    /\ ManagerNew

\* write_csv on every bounded table, header and target file.
CsvFields == {PyInt(12), PyStr("c,d")}

\* The example table of the documentation.
ExampleTable == << <<PyInt(1), PyInt(2)>>, <<PyInt(3), PyInt(4)>> >>

InitCsv ==
    /\ ManagerIdle /\ WellIdle
    /\ csv_header \in {None} \cup {PyList(h) : h \in SeqUpTo({PyStr("a"), PyStr("b")}, MaxCols)}
    /\ csv_rows \in SeqUpTo(SeqUpTo(CsvFields, MaxCols), MaxRows) \cup {ExampleTable}
    /\ csv_file \in {NoFile, OldFile}
    /\ csv_result = NotCalled

NextCsv == WriteCsv

SpecCsv == InitCsv /\ [][NextCsv]_vars

\* well_from_row_col on every bounded (row, column).
InitWell ==
    /\ ManagerIdle /\ CsvIdle
    /\ row \in 0..MaxWellRow
    /\ column \in 0..MaxWellColumn
    /\ well = ""

NextWell == WellFromRowCol

SpecWell == InitWell /\ [][NextWell]_vars

-----------------------------------------------------------------------------
(* Properties *)

ConstructedOk == initOutcome = Returned("__init__", None)

Closed(i) == handles[i].closes > 0

LiveHandles == {i \in DOMAIN handles : ~Closed(i)}

\* C1: constructed without a config_file while the session store holds a
\* session id, the manager takes host, user, session id and port from the
\* store, has no password, makes no file-system call on the config path and
\* construction returns normally, whatever is at that path.
C1_SessionOnly ==
    (phase # "new" /\ config_file = None /\ session_props[3] # None) =>
        /\ ConstructedOk
        /\ HOST = session_props[1]
        /\ USERNAME = session_props[2]
        /\ SUUID = session_props[3]
        /\ PORT = session_props[4]
        /\ PASSWORD = None
        /\ accessed = {}

\* C1 witness: built from a session while the default config file exists,
\* is readable by others and does not parse.
C1_Witness ==
    /\ phase = "constructed"
    /\ config_file = None
    /\ SUUID = PyStr("uuid-1")
    /\ fs.exists /\ fs.isfile /\ fs.mode = 420
    /\ fs.contents = GarbageConfig

\* C2: when the config file is consulted (a path was given, or the store
\* returned no session id) and it is missing or open to group or other,
\* __init__ exits with status 1 before parsing, and host, port, username,
\* password and session id are all still None.
C2_AbortResolvesNothing ==
    (/\ phase # "new"
     /\ config_file # None \/ session_props[3] = None
     /\ ~(fs.exists /\ fs.isfile) \/ fs.mode % 64 # 0) =>
        /\ initOutcome = Exited("__init__", 1)
        /\ \A a \in accessed : a.call # "read"
        /\ HOST = None /\ PORT = None /\ USERNAME = None
        /\ PASSWORD = None /\ SUUID = None

AuthModePassword(u, p, s) == u # None /\ p # None /\ s = None

AuthModeSession(u, p, s) == s # None /\ p = None

\* C3: after an __init__ that returned, the fields select exactly one way
\* to authenticate: username and password without a session id when the
\* config file was read, a session id without a password otherwise; and
\* every BlitzGateway is built and connected with those fields.
C3_ExactlyOneAuthMode ==
    ConstructedOk =>
        /\ IF accessed # {}
           THEN AuthModePassword(USERNAME, PASSWORD, SUUID)
           ELSE AuthModeSession(USERNAME, PASSWORD, SUUID)
        /\ \A i \in DOMAIN handles :
             /\ handles[i].username = USERNAME
             /\ handles[i].passwd = PASSWORD
             /\ handles[i].sUuid = SUUID
             /\ AuthModePassword(handles[i].username, handles[i].passwd,
                                 handles[i].sUuid)
                \/ AuthModeSession(handles[i].username, handles[i].passwd,
                                   handles[i].sUuid)

\* C3 witness: a handle was connected with the password of a config file
\* although the session store remembered a host and a user.
C3_Witness ==
    /\ Len(handles) >= 1
    /\ handles[1].passwd = PyStr("secret")
    /\ handles[1].sUuid = None
    /\ config_file = None
    /\ session_props[1] # None

\* C4: at most one handle of the manager is live, and it is the one the
\* manager holds; a handle is created only while none is held; connect()
\* while a handle is held returns that handle and changes nothing.
C4_AtMostOneLiveHandle ==
    /\ [](/\ Cardinality(LiveHandles) <= 1
          /\ conn # None => LiveHandles = {conn.id}
          /\ conn = None => LiveHandles = {})
    /\ [][/\ Len(handles') > Len(handles) =>
               (conn = None /\ Len(handles') = Len(handles) + 1)
          /\ (lastOp'.op = "connect" /\ conn # None) =>
               /\ lastOp' = Returned("connect", conn)
               /\ UNCHANGED <<conn, handles>>]_vars

\* C4 witness: connect() has returned the handle that an earlier hql_query
\* created.
C4_Witness ==
    /\ lastOp = Returned("connect", Gateway(1))
    /\ conn = Gateway(1)
    /\ Len(handles) = 1
    /\ handles[1].omeroGroup = PyInt(-1)

\* C5: disconnect() on a held handle closes it once, softly, and clears the
\* reference, and the next connect() makes a new handle; disconnect()
\* without a handle changes nothing; no handle is closed twice.
C5_DisconnectOnce ==
    /\ [](\A i \in DOMAIN handles : handles[i].closes <= 1)
    /\ [][/\ (lastOp'.op = "disconnect" /\ conn # None) =>
               /\ conn' = None
               /\ handles'[conn.id].closes = handles[conn.id].closes + 1
               /\ handles'[conn.id].softclose
               /\ \A i \in DOMAIN handles \ {conn.id} : handles'[i] = handles[i]
               /\ DOMAIN handles' = DOMAIN handles
          /\ (lastOp'.op = "disconnect" /\ conn = None) =>
               UNCHANGED <<conn, handles, credVars, phase>>
          /\ (lastOp'.op = "connect" /\ conn = None) =>
               /\ conn'.id \notin DOMAIN handles
               /\ handles'[conn'.id].closes = 0]_vars

\* C5 witness: after a disconnect(), connect() has made a second handle and
\* the first one was closed once.
C5_Witness ==
    /\ lastOp.op = "connect"
    /\ conn = Gateway(2)
    /\ handles[1].closes = 1 /\ handles[1].softclose
    /\ handles[2].closes = 0

\* C6: once __del__ has run, the manager holds no handle and every handle
\* it created has been closed, also after an __init__ that did not return
\* and after a connect() that failed.
C6_TeardownReleases ==
    phase = "deleted" =>
        /\ lastOp.op = "__del__"
        /\ conn = None
        /\ \A i \in DOMAIN handles : Closed(i)

\* C6 witness: teardown after the last connect() failed.
C6_Witness ==
    /\ phase = "deleted"
    /\ Len(handles) = 2
    /\ ~handles[2].connected
    /\ Closed(2)

\* C7: the list hql_query returns has the rows of the result set in order,
\* each with its cells in order, None for a null cell and the wrapper's val
\* for any other cell.
C7_UnwrapPreservesShape ==
    (lastOp.op = "hql_query" /\ lastOp.result = "return") =>
        LET out == lastOp.value.v
        IN  /\ Len(out) = Len(serverRows)
            /\ \A i \in 1..Len(serverRows) :
                 /\ Len(out[i]) = Len(serverRows[i])
                 /\ \A j \in 1..Len(serverRows[i]) :
                      IF serverRows[i][j] = None THEN out[i][j] = None
                      ELSE out[i][j] = serverRows[i][j].val
            /\ serverRows = ExampleRows =>
                 out = << <<PyInt(1), None>>, <<PyStr("x"), PyInt(2)>> >>

\* C7 witness: hql_query has returned for the documented example.
C7_Witness ==
    /\ lastOp.op = "hql_query" /\ lastOp.result = "return"
    /\ serverRows = ExampleRows

\* C8: write_csv with a header and a first row of another length raises
\* ValueError, does not exit and leaves the target path as it was; in every
\* other case the file is opened and what it held before is gone.
C8_WriteCsvValidation ==
    [][csv_result' # csv_result =>
         IF /\ csv_header # None
            /\ csv_rows # <<>>
            /\ Len(csv_rows[1]) # Len(csv_header.v)
         THEN /\ csv_result' = Raised("write_csv", "ValueError")
              /\ csv_file' = csv_file
         ELSE /\ csv_result'.result # "ValueError"
              /\ csv_file'.exists
              /\ csv_file'.opens = csv_file.opens + 1
              /\ \A k \in 1..Len(csv_file'.lines) :
                   csv_file'.lines[k] \notin
                     {csv_file.lines[m] : m \in 1..Len(csv_file.lines)}
              /\ csv_result'.result = "return" =>
                   Len(csv_file'.lines) =
                     Len(csv_rows) + (IF csv_header = None THEN 0 ELSE 1)]_vars

\* C8 witness: ValueError was raised and the file that existed is intact.
C8_Witness ==
    /\ csv_result = Raised("write_csv", "ValueError")
    /\ csv_file = OldFile
    /\ Len(csv_rows) = 2

UppercaseLetters ==
    <<"A", "B", "C", "D", "E", "F", "G", "H", "I", "J", "K", "L", "M",
      "N", "O", "P", "Q", "R", "S", "T", "U", "V", "W", "X", "Y", "Z">>

C10_NoFailedHandleRetained ==
    /\ conn # None => handles[conn.id].connected
    /\ (lastOp.op = "connect" /\ lastOp.result = "return") =>
         handles[lastOp.value.id].connected
    /\ (lastOp.op \in {"connect", "hql_query"} /\ lastOp.result = "exit") =>
         lastOp.status # 0

====
